---- MODULE Spec2Model ----
(***************************************************************************)
(* Model of the ranker leaderboard: the score log (Score table), one Redis *)
(* sorted set per game ("leaderboard:<game_id>") and the global sorted set *)
(* ("leaderboard:global"), with the operations of LeaderboardService and   *)
(* of ScoreSubmissionView.                                                 *)
(*                                                                         *)
(* Scores are counted in hundredths (DecimalField, decimal_places=2), so a *)
(* raw score is an integer.  float(score) of such a decimal of at most 12  *)
(* digits is an order-preserving injection into the doubles and negation   *)
(* of a double is exact, so keys of the sorted sets are compared and       *)
(* negated as those integers.                                              *)
(*                                                                         *)
(* Spec runs the handlers one at a time, each as one step.  RankSpec and   *)
(* WindowSpec read populated leaderboards (rank lookups, windows, pages),  *)
(* with users deleted under the index.  ConvSpec applies the two score     *)
(* conversions.  ConcSpec lets workers interleave the single database and  *)
(* Redis commands of submissions and rebuilds.                             *)
(***************************************************************************)
EXTENDS Integers, Sequences, FiniteSets, TLC

\* ---------------------------------------------------------------- bounds
NumUsers == 2
MaxScore == 1
MaxLog == 3
\* request workers that run at the same time
NumWorkers == 2

Users == 1..NumUsers
Workers == 1..NumWorkers
\* the score field of a request: any integer number of hundredths, the
\* negative one included
RequestScores == (0 - 1)..MaxScore

\* ---------------------------------------------------------------- games
\* The Game table: id -> row.  Game ids outside its domain do not exist.
Games ==
    <<[score_type |-> "highest", is_active |-> TRUE],
      [score_type |-> "lowest", is_active |-> TRUE],
      [score_type |-> "time", is_active |-> TRUE],
      [score_type |-> "highest", is_active |-> FALSE]>>

\* the game_id field of a request: every row of the table and one id that
\* names no game
GameIds == 1..(Len(Games) + 1)

\* ---------------------------------------------------------------- values
\* Python's None, and an optional value <<v>>
None == <<>>
Some(v) == <<v>>

Min2(a, b) == IF a < b THEN a ELSE b
Max2(a, b) == IF a > b THEN a ELSE b

\* str(user_id): the decimal digits of a positive integer
RECURSIVE str(_)
str(n) == IF n < 10 THEN <<n>> ELSE Append(str(n \div 10), n % 10)

\* byte-wise comparison of two member strings, as Redis orders equal scores
LexLess(s, t) ==
    \E i \in 1..(Min2(Len(s), Len(t)) + 1) :
        /\ \A j \in 1..(i - 1) : s[j] = t[j]
        /\ \/ i > Len(s) /\ i <= Len(t)
           \/ i <= Len(s) /\ i <= Len(t) /\ s[i] < t[i]

\* ---------------------------------------------------------------- Redis
\* A sorted set is a function from its members to their scores.
EmptyZSet == <<>>

\* ZADD key {member: score}: insert the member or overwrite its score
zadd(z, member, score) ==
    [m \in (DOMAIN z) \cup {member} |-> IF m = member THEN score ELSE z[m]]

\* a comes before b in the reverse (ZREV*) order: higher score first, equal
\* scores in descending order of the member string
RevBefore(z, a, b) ==
    \/ z[a] > z[b]
    \/ z[a] = z[b] /\ LexLess(str(b), str(a))

\* ZRANK in place of ZREVRANK: the position in the ascending order
zrank(z, member) ==
    IF member \notin DOMAIN z
    THEN None
    ELSE Some(Cardinality({x \in DOMAIN z : RevBefore(z, member, x)}))

\* ZREVRANK key member: 0-based position in the reverse order, or nil
zrevrank(z, member) ==
    IF member \notin DOMAIN z
    THEN None
    ELSE Some(Cardinality({x \in DOMAIN z : RevBefore(z, x, member)}))

\* ZSCORE key member
zscore(z, member) == IF member \in DOMAIN z THEN Some(z[member]) ELSE None

\* ZCARD key
zcard(z) == Cardinality(DOMAIN z)

\* the members of S in the reverse order
RECURSIVE RevOrder(_, _)
RevOrder(z, S) ==
    IF S = {}
    THEN <<>>
    ELSE LET top == CHOOSE x \in S : \A y \in S \ {x} : RevBefore(z, x, y)
         IN  <<top>> \o RevOrder(z, S \ {top})

\* ZREVRANGE with an end that is not part of the range
zrevrange_exclusive(z, start, end) ==
    LET llen == zcard(z)
        s1 == IF start < 0 THEN llen + start ELSE start
        e1 == IF end < 0 THEN llen + end ELSE end
        s2 == IF s1 < 0 THEN 0 ELSE s1
        e2 == IF e1 >= llen THEN llen - 1 ELSE e1
        all == RevOrder(z, DOMAIN z)
    IN  IF s2 >= e1 \/ s2 >= llen
        THEN <<>>
        ELSE [i \in 1..(e2 - s2) |-> <<all[s2 + i], z[all[s2 + i]]>>]

\* ZREVRANGE key start end WITHSCORES: negative indexes count from the end,
\* an end beyond the last element is cut, an empty or inverted range is empty
zrevrange(z, start, end) ==
    LET llen == zcard(z)
        s1 == IF start < 0 THEN llen + start ELSE start
        e1 == IF end < 0 THEN llen + end ELSE end
        s2 == IF s1 < 0 THEN 0 ELSE s1
        e2 == IF e1 >= llen THEN llen - 1 ELSE e1
        all == RevOrder(z, DOMAIN z)
    IN  IF s2 > e1 \/ s2 >= llen
        THEN <<>>
        ELSE [i \in 1..(e2 - s2 + 1) |-> <<all[s2 + i], z[all[s2 + i]]>>]

\* ---------------------------------------------------------------- state
VARIABLES
    log,        \* the Score table in insertion order: [user, game, score]
    gameIdx,    \* game id -> the sorted set "leaderboard:<game_id>"
    globalIdx,  \* the sorted set "leaderboard:global"
    resp,       \* the last completed operation: its request and its answer
    userTable,  \* the ids of the rows of the User table
    procs       \* worker -> the request it is handling and how far it got

vars == <<log, gameIdx, globalIdx, resp, userTable, procs>>

\* User.objects: the users the user directory resolves
ExistingUsers == userTable

\* ---------------------------------------------------------------- service
\* the score stored as it is, whatever the policy
_convert_score_for_redis_raw(score, game_score_type) == score

_convert_score_for_redis(score, game_score_type) ==
    IF game_score_type = "highest" THEN 0 - score ELSE score

\* the stored key shown as it is, whatever the policy
_convert_score_from_redis_raw(redis_score, game_score_type) == redis_score

_convert_score_from_redis(redis_score, game_score_type) ==
    IF game_score_type = "highest" THEN 0 - redis_score ELSE redis_score

\* update_user_score writing the game index only when the new key is lower
\* than the stored one
update_user_score_keep_best(gi, gl, game_id, user_id, score, game_score_type) ==
    LET redis_score == _convert_score_for_redis(score, game_score_type)
        z == gi[game_id]
    IN  [game |-> IF user_id \in DOMAIN z /\ z[user_id] <= redis_score
                  THEN gi
                  ELSE [gi EXCEPT ![game_id] = zadd(@, user_id, redis_score)],
         global |-> zadd(gl, user_id, score)]

\* update_user_score: the two ZADDs; the new pair of indexes
update_user_score(gi, gl, game_id, user_id, score, game_score_type) ==
    LET redis_score == _convert_score_for_redis(score, game_score_type)
    IN  [game |-> [gi EXCEPT ![game_id] = zadd(@, user_id, redis_score)],
         global |-> zadd(gl, user_id, score)]

\* the rows get_leaderboard builds from a ZREVRANGE answer: the rank counts
\* from start + 1 over every listed member, a member the user directory
\* does not resolve gives no row
RECURSIVE Rows(_, _, _)
Rows(ranked_users, rank, game_score_type) ==
    IF ranked_users = <<>>
    THEN <<>>
    ELSE LET user_id == Head(ranked_users)[1]
             redis_score == Head(ranked_users)[2]
             row == [rank |-> rank,
                     user_id |-> user_id,
                     score |-> _convert_score_from_redis(redis_score, game_score_type)]
         IN  (IF user_id \in ExistingUsers THEN <<row>> ELSE <<>>)
                 \o Rows(Tail(ranked_users), rank + 1, game_score_type)

get_leaderboard(gi, game_id, start, end) ==
    IF game_id \notin DOMAIN Games
    THEN <<>>
    ELSE Rows(zrevrange(gi[game_id], start, end), start + 1,
              Games[game_id].score_type)

\* the rows get_global_leaderboard builds: the stored value is shown as it is
RECURSIVE GlobalRows(_, _)
GlobalRows(ranked_users, rank) ==
    IF ranked_users = <<>>
    THEN <<>>
    ELSE LET user_id == Head(ranked_users)[1]
             total_score == Head(ranked_users)[2]
             row == [rank |-> rank, user_id |-> user_id, total_score |-> total_score]
         IN  (IF user_id \in ExistingUsers THEN <<row>> ELSE <<>>)
                 \o GlobalRows(Tail(ranked_users), rank + 1)

get_global_leaderboard(gl, start, end) ==
    GlobalRows(zrevrange(gl, start, end), start + 1)

\* get_user_rank with a window that ends one place earlier
get_user_rank_narrow(gi, game_id, user_id) ==
    IF game_id \notin DOMAIN Games
    THEN None
    ELSE LET rank == zrevrank(gi[game_id], user_id)
         IN  IF rank = None
             THEN None
             ELSE LET r == rank[1]
                      redis_score == zscore(gi[game_id], user_id)[1]
                  IN  Some([user_rank |-> r + 1,
                            user_score |-> _convert_score_from_redis(
                                               redis_score, Games[game_id].score_type),
                            surrounding_players |->
                                get_leaderboard(gi, game_id, Max2(0, r - 5), r + 4),
                            total_players |-> zcard(gi[game_id])])

get_user_rank(gi, game_id, user_id) ==
    IF game_id \notin DOMAIN Games
    THEN None
    ELSE LET rank == zrevrank(gi[game_id], user_id)
         IN  IF rank = None
             THEN None
             ELSE LET r == rank[1]
                      redis_score == zscore(gi[game_id], user_id)[1]
                  IN  Some([user_rank |-> r + 1,
                            user_score |-> _convert_score_from_redis(
                                               redis_score, Games[game_id].score_type),
                            surrounding_players |->
                                get_leaderboard(gi, game_id, Max2(0, r - 5), r + 5),
                            total_players |-> zcard(gi[game_id])])

\* a clear that deletes the sorted set of every game
\* get_user_global_rank counting from the lowest stored value
get_user_global_rank_ascending(gl, user_id) ==
    LET rank == zrank(gl, user_id)
    IN  IF rank = None
        THEN None
        ELSE Some([user_rank |-> rank[1] + 1,
                   total_score |-> zscore(gl, user_id)[1],
                   total_players |-> zcard(gl)])

\* get_user_global_rank: ZREVRANK, ZSCORE and ZCARD of the global sorted
\* set; the stored value is returned as it is
get_user_global_rank(gl, user_id) ==
    LET rank == zrevrank(gl, user_id)
    IN  IF rank = None
        THEN None
        ELSE Some([user_rank |-> rank[1] + 1,
                   total_score |-> zscore(gl, user_id)[1],
                   total_players |-> zcard(gl)])

clear_leaderboard_all(gi, game_id) == [g \in DOMAIN gi |-> EmptyZSet]

clear_leaderboard(gi, game_id) == [gi EXCEPT ![game_id] = EmptyZSet]

\* ---------------------------------------------------------------- log
\* the records of a game, newest first, read from the log without its
\* newest record
RECURSIVE ScoresOfGame_stale(_, _)
ScoresOfGame_stale(lg, game_id) ==
    IF Len(lg) <= 1
    THEN <<>>
    ELSE LET before == SubSeq(lg, 1, Len(lg) - 1)
             last   == before[Len(before)]
             rest   == ScoresOfGame_stale(before, game_id)
         IN  IF last.game = game_id THEN <<last>> \o rest ELSE rest

\* Score.objects.filter(game=game): the records of a game, newest first
\* (Meta.ordering = ["-submitted_at"])
RECURSIVE ScoresOfGame(_, _)
ScoresOfGame(lg, game_id) ==
    IF lg = <<>>
    THEN <<>>
    ELSE LET last == lg[Len(lg)]
             rest == ScoresOfGame(SubSeq(lg, 1, Len(lg) - 1), game_id)
         IN  IF last.game = game_id THEN <<last>> \o rest ELSE rest

\* Score.get_user_best_score: the first record of the user's records of the
\* game ordered by "-score" (highest) or by "score" (lowest, time); None
\* when there is no record
get_user_best_score(lg, user_id, game_id) ==
    LET scores == {lg[i].score : i \in
                      {j \in DOMAIN lg : lg[j].user = user_id /\ lg[j].game = game_id}}
    IN  IF scores = {}
        THEN None
        ELSE IF Games[game_id].score_type = "highest"
             THEN Some(CHOOSE s \in scores : \A t \in scores : s >= t)
             ELSE Some(CHOOSE s \in scores : \A t \in scores : s <= t)

\* ---------------------------------------------------------------- rebuild
\* the loop body keeping the maximum whatever the score type
user_scores_step_max(user_scores, score, game_score_type) ==
    LET user_id == score.user
        current_score == score.score
        val == user_scores.val
    IN  IF user_id \notin DOMAIN val
        THEN [keys |-> Append(user_scores.keys, user_id),
              val |-> [u \in (DOMAIN val) \cup {user_id} |->
                          IF u = user_id THEN current_score ELSE val[u]]]
        ELSE [user_scores EXCEPT !.val[user_id] = Max2(@, current_score)]

\* the loop body adding every further score of a user to the kept one
user_scores_step_sum(user_scores, score, game_score_type) ==
    LET user_id == score.user
        current_score == score.score
        val == user_scores.val
    IN  IF user_id \notin DOMAIN val
        THEN [keys |-> Append(user_scores.keys, user_id),
              val |-> [u \in (DOMAIN val) \cup {user_id} |->
                          IF u = user_id THEN current_score ELSE val[u]]]
        ELSE [user_scores EXCEPT !.val[user_id] = @ + current_score]

\* one pass of the loop over the records: user_scores is a dict, kept here
\* as its keys in insertion order and its values
user_scores_step(user_scores, score, game_score_type) ==
    LET user_id == score.user
        current_score == score.score
        val == user_scores.val
    IN  IF user_id \notin DOMAIN val
        THEN [keys |-> Append(user_scores.keys, user_id),
              val |-> [u \in (DOMAIN val) \cup {user_id} |->
                          IF u = user_id THEN current_score ELSE val[u]]]
        ELSE IF game_score_type = "highest"
             THEN [user_scores EXCEPT !.val[user_id] = Max2(@, current_score)]
             ELSE [user_scores EXCEPT !.val[user_id] = Min2(@, current_score)]

RECURSIVE user_scores_loop(_, _, _)
user_scores_loop(user_scores, scores, game_score_type) ==
    IF scores = <<>>
    THEN user_scores
    ELSE user_scores_loop(user_scores_step(user_scores, Head(scores), game_score_type),
                          Tail(scores), game_score_type)

\* the loop over user_scores.items() leaving out its first item
RECURSIVE repopulate_rest(_, _, _, _, _)
repopulate_rest(idx, keys, val, game_id, game_score_type) ==
    IF keys = <<>> \/ Tail(keys) = <<>>
    THEN idx
    ELSE repopulate_rest(update_user_score(idx.game, idx.global, game_id,
                                           Head(Tail(keys)), val[Head(Tail(keys))],
                                           game_score_type),
                         Tail(keys), val, game_id, game_score_type)

\* the loop over user_scores.items(): one update_user_score per user
RECURSIVE repopulate(_, _, _, _, _)
repopulate(idx, keys, val, game_id, game_score_type) ==
    IF keys = <<>>
    THEN idx
    ELSE repopulate(update_user_score(idx.game, idx.global, game_id, Head(keys),
                                      val[Head(keys)], game_score_type),
                    Tail(keys), val, game_id, game_score_type)

\* ZINCRBY key increment member
zincrby(z, member, increment) ==
    zadd(z, member, (IF member \in DOMAIN z THEN z[member] ELSE 0) + increment)

\* a rebuild that does not clear and adds each best key to the stored one
RECURSIVE accumulate(_, _, _, _, _)
accumulate(gi, keys, val, game_id, game_score_type) ==
    IF keys = <<>>
    THEN gi
    ELSE accumulate([gi EXCEPT ![game_id] =
                        zincrby(@, Head(keys),
                                _convert_score_for_redis(val[Head(keys)], game_score_type))],
                    Tail(keys), val, game_id, game_score_type)

rebuild_leaderboard_accumulate(lg, gi, gl, game_id) ==
    IF game_id \notin DOMAIN Games
    THEN [game |-> gi, global |-> gl]
    ELSE LET game_score_type == Games[game_id].score_type
             user_scores == user_scores_loop([keys |-> <<>>, val |-> <<>>],
                                             ScoresOfGame(lg, game_id),
                                             game_score_type)
         IN  [game |-> accumulate(gi, user_scores.keys, user_scores.val, game_id,
                                  game_score_type),
              global |-> gl]

rebuild_leaderboard(lg, gi, gl, game_id) ==
    IF game_id \notin DOMAIN Games
    THEN [game |-> gi, global |-> gl]
    ELSE LET game_score_type == Games[game_id].score_type
             cleared == clear_leaderboard(gi, game_id)
             user_scores == user_scores_loop([keys |-> <<>>, val |-> <<>>],
                                             ScoresOfGame(lg, game_id),
                                             game_score_type)
         IN  repopulate([game |-> cleared, global |-> gl], user_scores.keys,
                        user_scores.val, game_id, game_score_type)

\* ---------------------------------------------------------------- submission
\* validate_game_id without the is_active test
validate_game_id_any_game(value) ==
    IF value \notin DOMAIN Games THEN {"Game not found."} ELSE {}

\* ScoreSubmissionSerializer.validate_game_id: the errors of the game_id field
validate_game_id(value) ==
    IF value \notin DOMAIN Games
    THEN {"Game not found."}
    ELSE IF ~Games[value].is_active
         THEN {"This game is not currently active."}
         ELSE {}

\* the score field: DecimalField(min_value=0) and validate_score
validate_score(value) ==
    IF value < 0 THEN {"Score cannot be negative."} ELSE {}

\* serializer.errors: field name -> the errors of that field
serializer_errors(game_id, score) ==
    [game_id |-> validate_game_id(game_id), score |-> validate_score(score)]

is_valid(game_id, score) ==
    validate_game_id(game_id) = {} /\ validate_score(score) = {}

\* the comparison of ScoreSubmissionView.post with the record that
\* get_user_best_score returns
is_personal_best(previous_best, score_value, game_score_type) ==
    IF previous_best # None
    THEN IF game_score_type = "highest"
         THEN score_value > previous_best[1]
         ELSE score_value < previous_best[1]
    ELSE TRUE

\* ---------------------------------------------------------------- model
\* a worker that handles no request
Idle == [pc |-> "idle"]

\* nothing submitted yet: an empty Score table and no sorted set
Init ==
    /\ log = <<>>
    /\ gameIdx = [g \in GameIds |-> EmptyZSet]
    /\ globalIdx = EmptyZSet
    /\ resp = [op |-> "none"]
    /\ userTable = Users
    /\ procs = [w \in Workers |-> Idle]

\* ScoreSubmissionView.post refusing the request: 400 with serializer.errors
SubmitRejected(u, g, s) ==
    /\ ~is_valid(g, s)
    /\ resp' = [op |-> "submit", request |-> [game_id |-> g, score |-> s],
                status |-> 400, errors |-> serializer_errors(g, s)]
    /\ UNCHANGED <<log, gameIdx, globalIdx, userTable, procs>>

\* ScoreSubmissionView.post accepting the request: Score.objects.create
\* (the insert, then Score.save's update_redis_leaderboard), the rank lookup,
\* the personal-best flag, 201.  The Game table does not change, so the
\* Game.objects.get after a passed validation finds the game (no 404).
SubmitAccepted(u, g, s) ==
    /\ is_valid(g, s)
    /\ Len(log) < MaxLog
    /\ LET game == Games[g]
           lg == Append(log, [user |-> u, game |-> g, score |-> s])
           idx == update_user_score(gameIdx, globalIdx, g, u, s, game.score_type)
           rank_info == get_user_rank(idx.game, g, u)
           previous_best == get_user_best_score(lg, u, g)
       IN  /\ log' = lg
           /\ gameIdx' = idx.game
           /\ globalIdx' = idx.global
           /\ resp' = [op |-> "submit", request |-> [game_id |-> g, score |-> s],
                       status |-> 201, score |-> s,
                       is_personal_best |->
                           is_personal_best(previous_best, s, game.score_type),
                       rank |-> IF rank_info = None THEN None
                                ELSE Some(rank_info[1].user_rank),
                       total_players |-> IF rank_info = None THEN None
                                         ELSE Some(rank_info[1].total_players)]
    /\ UNCHANGED <<userTable, procs>>

RebuildLeaderboard(g) ==
    /\ LET idx == rebuild_leaderboard(log, gameIdx, globalIdx, g)
       IN  /\ gameIdx' = idx.game
           /\ globalIdx' = idx.global
    /\ resp' = [op |-> "rebuild", game_id |-> g]
    /\ UNCHANGED <<log, userTable, procs>>

ClearLeaderboard(g) ==
    /\ gameIdx' = clear_leaderboard(gameIdx, g)
    /\ resp' = [op |-> "clear", game_id |-> g]
    /\ UNCHANGED <<log, globalIdx, userTable, procs>>

Next ==
    \/ \E u \in Users, g \in GameIds, s \in RequestScores : SubmitRejected(u, g, s)
    \/ \E u \in Users, g \in GameIds, s \in RequestScores : SubmitAccepted(u, g, s)
    \/ \E g \in GameIds : RebuildLeaderboard(g)
    \/ \E g \in GameIds : ClearLeaderboard(g)

Spec == Init /\ [][Next]_vars

\* ---------------------------------------------------------------- properties
\* the records of the log of a user for a game, as positions of the log
RecordsOf(lg, user_id, game_id) ==
    {i \in DOMAIN lg : lg[i].user = user_id /\ lg[i].game = game_id}

\* the raw scores a user submitted to a game
ScoresOf(lg, user_id, game_id) == {lg[i].score : i \in RecordsOf(lg, user_id, game_id)}

\* the sum of every raw score of a user, over all games
RECURSIVE SumOfUser(_, _)
SumOfUser(lg, user_id) ==
    IF lg = <<>>
    THEN 0
    ELSE (IF Head(lg).user = user_id THEN Head(lg).score ELSE 0)
             + SumOfUser(Tail(lg), user_id)

\* every entry of a game's index, best first as get_leaderboard lists them
FullLeaderboard(game_id) ==
    get_leaderboard(gameIdx, game_id, 0, zcard(gameIdx[game_id]) - 1)

FullGlobalLeaderboard == get_global_leaderboard(globalIdx, 0, zcard(globalIdx) - 1)

Accepted == resp.op = "submit" /\ resp.status = 201

\* the record the last accepted submission appended
LastRecord == log[Len(log)]

\* C1: in a highest-wins game get_leaderboard lists the ranked users in
\* non-increasing raw-score order with ranks 1, 2, 3, ...
C1_HighestLeaderboardOrder ==
    \A g \in DOMAIN Games :
        Games[g].score_type = "highest" =>
            LET lb == FullLeaderboard(g)
            IN  /\ Len(lb) = zcard(gameIdx[g])
                /\ \A i \in DOMAIN lb :
                       /\ lb[i].rank = i
                       /\ i < Len(lb) => lb[i].score >= lb[i + 1].score

\* C2: in a lowest-wins or time-wins game a user with a smaller current raw
\* score has a numerically smaller rank than a user with a larger one
C2_LowerScoreBetterRank ==
    \A g \in DOMAIN Games :
        Games[g].score_type \in {"lowest", "time"} =>
            \A u, v \in DOMAIN gameIdx[g] :
                LET ru == get_user_rank(gameIdx, g, u)[1]
                    rv == get_user_rank(gameIdx, g, v)[1]
                IN  ru.user_score < rv.user_score => ru.user_rank < rv.user_rank

\* C3: the total_score get_global_leaderboard shows for a user is the sum of
\* all raw scores the user ever submitted, over all games
C3_GlobalIsSum ==
    /\ \A u \in Users :
           u \in DOMAIN globalIdx <=> \E i \in DOMAIN log : log[i].user = u
    /\ LET lb == FullGlobalLeaderboard
       IN  \A i \in DOMAIN lb : lb[i].total_score = SumOfUser(log, lb[i].user_id)

\* C4: after an accepted submission the user's entry in the game's index is
\* the key of the submitted score, and get_user_rank reports that score as
\* user_score, whatever the user submitted before
C4_IndexHoldsSubmission ==
    Accepted =>
        LET u == LastRecord.user
            g == LastRecord.game
            s == LastRecord.score
            info == get_user_rank(gameIdx, g, u)
        IN  /\ u \in DOMAIN gameIdx[g]
            /\ gameIdx[g][u] = (IF Games[g].score_type = "highest" THEN 0 - s ELSE s)
            /\ info # None
            /\ info[1].user_score = s
            /\ resp.score = s

\* a highest-wins submission that is worse than an earlier one of the same
\* user, and the index showing it
C4_Witness ==
    /\ Accepted
    /\ Games[LastRecord.game].score_type = "highest"
    /\ \E i \in RecordsOf(log, LastRecord.user, LastRecord.game) :
           log[i].score > LastRecord.score
    /\ get_user_rank(gameIdx, LastRecord.game, LastRecord.user)[1].user_score
           = LastRecord.score

\* the best raw score of a set of raw scores under a score type
BestOf(scores, game_score_type) ==
    IF game_score_type = "highest"
    THEN CHOOSE s \in scores : \A t \in scores : s >= t
    ELSE CHOOSE s \in scores : \A t \in scores : s <= t

\* the index a replay of the log builds when an entry is replaced only by a
\* strictly better score: oldest record first
RECURSIVE KeepBestReplay(_, _)
KeepBestReplay(lg, game_id) ==
    IF lg = <<>>
    THEN EmptyZSet
    ELSE LET z == KeepBestReplay(SubSeq(lg, 1, Len(lg) - 1), game_id)
             rec == lg[Len(lg)]
             highest == Games[game_id].score_type = "highest"
             key == IF highest THEN 0 - rec.score ELSE rec.score
         IN  IF rec.game # game_id
             THEN z
             ELSE IF rec.user \in DOMAIN z /\ z[rec.user] <= key
                  THEN z
                  ELSE [m \in (DOMAIN z) \cup {rec.user} |->
                           IF m = rec.user THEN key ELSE z[m]]

Rebuilt == resp.op = "rebuild" /\ resp.game_id \in DOMAIN Games

\* C5: after rebuild_leaderboard(g) the members of g's index are the users
\* with a record for g, each with the key of the best of its raw scores: the
\* index is the one a keep-best replay of the log builds
C5_RebuildIsKeepBestReplay ==
    Rebuilt =>
        LET g == resp.game_id
            z == gameIdx[g]
        IN  /\ DOMAIN z = {u \in Users : RecordsOf(log, u, g) # {}}
            /\ \A u \in DOMAIN z :
                   _convert_score_from_redis(z[u], Games[g].score_type)
                       = BestOf(ScoresOf(log, u, g), Games[g].score_type)
            /\ z = KeepBestReplay(log, g)

\* a rebuild of a lowest-wins or time-wins game in which a user's newest
\* record is not the user's best, and the index showing the best
C5_Witness ==
    /\ Rebuilt
    /\ Games[resp.game_id].score_type # "highest"
    /\ \E u \in DOMAIN gameIdx[resp.game_id] :
           LET recs == RecordsOf(log, u, resp.game_id)
               newest == CHOOSE i \in recs : \A j \in recs : j <= i
           IN  /\ log[newest].score > gameIdx[resp.game_id][u]
               /\ \E v \in DOMAIN gameIdx[resp.game_id] : v # u

\* C6: in the state a rebuild_leaderboard(g) leaves, running
\* rebuild_leaderboard(g) again gives g's index the same members and keys
C6_RebuildIdempotent ==
    resp.op = "rebuild" =>
        rebuild_leaderboard(log, gameIdx, globalIdx, resp.game_id).game[resp.game_id]
            = gameIdx[resp.game_id]

\* a rebuild that left an index of two users, one of them with a key that
\* is not zero
C6_Witness ==
    /\ Rebuilt
    /\ zcard(gameIdx[resp.game_id]) >= 2
    /\ \E u \in DOMAIN gameIdx[resp.game_id] : gameIdx[resp.game_id][u] # 0

\* C7: a rebuild leaves every entry of the global index as it was
C7_RebuildKeepsGlobal ==
    [][resp'.op = "rebuild" => globalIdx' = globalIdx]_vars

\* C8: is_personal_best is true when the user had no record for the game
\* before the submission, and otherwise exactly when the submitted score is
\* strictly better than the best of the earlier records
C8_PersonalBest ==
    Accepted =>
        LET earlier == SubSeq(log, 1, Len(log) - 1)
            prior == ScoresOf(earlier, LastRecord.user, LastRecord.game)
            game_score_type == Games[LastRecord.game].score_type
        IN  resp.is_personal_best
                <=> \/ prior = {}
                    \/ /\ prior # {}
                       /\ IF game_score_type = "highest"
                          THEN LastRecord.score > BestOf(prior, game_score_type)
                          ELSE LastRecord.score < BestOf(prior, game_score_type)

\* the requests the validation has to refuse
BadRequests ==
    {r \in GameIds \X RequestScores :
        \/ r[1] \notin DOMAIN Games
        \/ r[1] \in DOMAIN Games /\ ~Games[r[1]].is_active
        \/ r[2] < 0}

\* C9: a submission naming a game that does not exist or is inactive, or
\* carrying a negative score, is refused with an error and changes neither
\* the log nor any index
C9_RejectedChangesNothing ==
    [][(/\ resp'.op = "submit"
        /\ <<resp'.request.game_id, resp'.request.score>> \in BadRequests)
           => /\ resp'.status = 400
              /\ resp'.errors.game_id # {} \/ resp'.errors.score # {}
              /\ log' = log
              /\ gameIdx' = gameIdx
              /\ globalIdx' = globalIdx]_vars

\* a submission to the inactive game refused when the log and the indexes
\* hold entries
C9_Witness ==
    /\ resp.op = "submit"
    /\ resp.status = 400
    /\ resp.errors.game_id = {"This game is not currently active."}
    /\ log # <<>>
    /\ globalIdx # EmptyZSet

\* C10: get_user_rank is None exactly when the game does not exist or the
\* user has no entry in its index; otherwise user_rank is the 1-indexed
\* position of the user's entry in the order the index lists its entries,
\* total_players is the cardinality, and 1 <= user_rank <= total_players
C10_UserRank ==
    \A g \in GameIds, u \in Users :
        LET info == get_user_rank(gameIdx, g, u)
            listing == zrevrange(gameIdx[g], 0, 0 - 1)
        IN  /\ info = None <=> (g \notin DOMAIN Games \/ u \notin DOMAIN gameIdx[g])
            /\ info # None =>
                   /\ \E i \in DOMAIN listing :
                          listing[i][1] = u /\ info[1].user_rank = i
                   /\ info[1].user_rank
                          = 1 + Cardinality({v \in DOMAIN gameIdx[g] :
                                                 RevBefore(gameIdx[g], v, u)})
                   /\ info[1].total_players = Cardinality(DOMAIN gameIdx[g])
                   /\ 1 <= info[1].user_rank
                   /\ info[1].user_rank <= info[1].total_players

\* an index of two users with different keys: one at rank 1, one at rank 2,
\* and a game with a user that has no entry
C10_Witness ==
    \E g \in DOMAIN Games, u, v \in Users :
        /\ get_user_rank(gameIdx, g, u) # None
        /\ get_user_rank(gameIdx, g, v) # None
        /\ get_user_rank(gameIdx, g, u)[1].user_rank = 1
        /\ get_user_rank(gameIdx, g, v)[1].user_rank = 2
        /\ gameIdx[g][u] # gameIdx[g][v]
        /\ \E h \in DOMAIN Games : get_user_rank(gameIdx, h, u) = None

\* ---------------------------------------------------------------- reads
\* the most players a leaderboard holds when ranks are looked up
MaxPlayers == 12
\* the most players a leaderboard holds when windows of it are read
MaxBoard == 3
\* how far below 0 a requested window bound goes
MaxBack == 2
\* the most users deleted while their index entries stay
MaxDeleted == 1

Players == 1..MaxPlayers

\* how many players share one score in a populated leaderboard
TieWidths == 1..2

\* the games ScoreSubmissionSerializer accepts a score for
ActiveGameIds == {g \in DOMAIN Games : Games[g].is_active}

\* the Score rows of n users who each submitted once to one game, t of them
\* sharing each score
OneScoreEach(n, game_id, t) ==
    [i \in 1..n |-> [user |-> i, game |-> game_id, score |-> i \div t]]

\* Score.save of every row of lg, oldest first: the indexes the rows leave
RECURSIVE SaveAll(_)
SaveAll(lg) ==
    IF lg = <<>>
    THEN [game |-> [g \in GameIds |-> EmptyZSet], global |-> EmptyZSet]
    ELSE LET before == SaveAll(SubSeq(lg, 1, Len(lg) - 1))
             rec == lg[Len(lg)]
         IN  update_user_score(before.game, before.global, rec.game,
                               rec.user, rec.score,
                               Games[rec.game].score_type)

\* the window bounds a caller asks an index of this size for
WindowBounds(z) == (0 - MaxBack)..(zcard(z) + 1)

\* users whose entries are in an index but whose User row is gone
Unresolved == (DOMAIN globalIdx) \ userTable

\* a leaderboard of up to most users, each with one submission
Populated(most) ==
    \E n \in 0..most, g \in ActiveGameIds, t \in TieWidths :
        LET lg == OneScoreEach(n, g, t)
            idx == SaveAll(lg)
        IN  /\ log = lg
            /\ gameIdx = idx.game
            /\ globalIdx = idx.global
            /\ userTable = 1..n
            /\ resp = [op |-> "none"]
            /\ procs = [w \in Workers |-> Idle]

\* User.delete(): the user's Score rows go with it (on_delete=CASCADE), the
\* sorted sets are not touched
DeleteUser(u) ==
    /\ u \in userTable
    /\ Cardinality(Unresolved) < MaxDeleted
    /\ userTable' = userTable \ {u}
    /\ log' = SelectSeq(log, LAMBDA rec : rec.user # u)
    /\ resp' = [op |-> "delete_user", user_id |-> u]
    /\ UNCHANGED <<gameIdx, globalIdx, procs>>

\* LeaderboardService.get_leaderboard(game_id, start, end)
GetLeaderboard(g, start, end) ==
    /\ resp' = [op |-> "get_leaderboard", game_id |-> g,
                start |-> start, end |-> end,
                rows |-> get_leaderboard(gameIdx, g, start, end)]
    /\ UNCHANGED <<log, gameIdx, globalIdx, userTable, procs>>

\* LeaderboardService.get_global_leaderboard(start, end)
GetGlobalLeaderboard(start, end) ==
    /\ resp' = [op |-> "get_global_leaderboard",
                start |-> start, end |-> end,
                rows |-> get_global_leaderboard(globalIdx, start, end)]
    /\ UNCHANGED <<log, gameIdx, globalIdx, userTable, procs>>

\* LeaderboardService.get_user_rank(game_id, user_id)
GetUserRank(g, u) ==
    /\ resp' = [op |-> "get_user_rank", game_id |-> g, user_id |-> u,
                result |-> get_user_rank(gameIdx, g, u)]
    /\ UNCHANGED <<log, gameIdx, globalIdx, userTable, procs>>

\* "Max 100 per page"
MaxPageSize == 100

\* LeaderboardView.get: page and page_size of the query string become the
\* window; the answer is 404 for a game that does not exist
LeaderboardView_get(game_id, page_param, page_size_param) ==
    /\ resp' =
           IF game_id \notin DOMAIN Games
           THEN [op |-> "leaderboard_view", game_id |-> game_id,
                 page |-> page_param, status |-> 404]
           ELSE LET page == page_param
                    page_size == Min2(page_size_param, MaxPageSize)
                    start == (page - 1) * page_size
                    end == start + page_size - 1
                    leaderboard == get_leaderboard(gameIdx, game_id, start, end)
                IN  [op |-> "leaderboard_view", game_id |-> game_id, status |-> 200,
                     start |-> start, end |-> end,
                     leaderboard |-> leaderboard,
                     page |-> page, page_size |-> page_size,
                     has_next |-> (Len(leaderboard) = page_size)]
    /\ UNCHANGED <<log, gameIdx, globalIdx, userTable, procs>>

\* GlobalLeaderboardView.get: the same paging over the global sorted set
GlobalLeaderboardView_get(page_param, page_size_param) ==
    /\ LET page == page_param
           page_size == Min2(page_size_param, MaxPageSize)
           start == (page - 1) * page_size
           end == start + page_size - 1
           leaderboard == get_global_leaderboard(globalIdx, start, end)
       IN  resp' = [op |-> "global_leaderboard_view", status |-> 200,
                    start |-> start, end |-> end,
                    leaderboard |-> leaderboard,
                    page |-> page, page_size |-> page_size,
                    has_next |-> (Len(leaderboard) = page_size)]
    /\ UNCHANGED <<log, gameIdx, globalIdx, userTable, procs>>

\* LeaderboardService.get_user_global_rank(user_id)
GetUserGlobalRank(u) ==
    /\ resp' = [op |-> "get_user_global_rank", user_id |-> u,
                result |-> get_user_global_rank(globalIdx, u)]
    /\ UNCHANGED <<log, gameIdx, globalIdx, userTable, procs>>

\* the page numbers and page sizes a query string carries
Pages == (0 - 1)..2
PageSizes == ((0 - 1)..MaxBoard) \cup {MaxPageSize + 1}

\* rank lookups on leaderboards of up to MaxPlayers users
RankInit == Populated(MaxPlayers)

RankNext ==
    \/ \E u \in Players : DeleteUser(u)
    \/ \E g \in GameIds, u \in Players : GetUserRank(g, u)

RankSpec == RankInit /\ [][RankNext]_vars

\* window reads on leaderboards of up to MaxBoard users
WindowInit == Populated(MaxBoard)

WindowNext ==
    \/ \E u \in Players : DeleteUser(u)
    \/ \E g \in GameIds : \E start, end \in WindowBounds(gameIdx[g]) :
           GetLeaderboard(g, start, end)
    \/ \E start, end \in WindowBounds(globalIdx) : GetGlobalLeaderboard(start, end)
    \/ \E g \in GameIds, page \in Pages, page_size \in PageSizes :
           LeaderboardView_get(g, page, page_size)
    \/ \E page \in Pages, page_size \in PageSizes :
           GlobalLeaderboardView_get(page, page_size)
    \/ \E u \in Players : GetUserGlobalRank(u)

WindowSpec == WindowInit /\ [][WindowNext]_vars

\* ---------------------------------------------------------------- conversions
\* the largest raw score the conversions are applied to
MaxRaw == 6

RawScores == 0..MaxRaw

\* Game.SCORE_TYPE_CHOICES
ScoreTypes == {"highest", "lowest", "time"}

\* Game.get_redis_score(user_score) of a game with this score_type
get_redis_score(score_type, user_score) ==
    IF score_type = "lowest" \/ score_type = "time"
    THEN user_score
    ELSE 0 - user_score

\* two raw scores of a game of some policy, nothing stored
ConvInit ==
    /\ log = <<>>
    /\ gameIdx = [g \in GameIds |-> EmptyZSet]
    /\ globalIdx = EmptyZSet
    /\ userTable = Users
    /\ procs = [w \in Workers |-> Idle]
    /\ \E a, b \in RawScores, p \in ScoreTypes :
           resp = [op |-> "scores", a |-> a, b |-> b, game_score_type |-> p]

\* LeaderboardService._convert_score_for_redis of both scores
ConvertForRedis ==
    /\ resp.op = "scores"
    /\ resp' = [op |-> "for_redis", a |-> resp.a, b |-> resp.b,
                game_score_type |-> resp.game_score_type,
                key_a |-> _convert_score_for_redis(resp.a, resp.game_score_type),
                key_b |-> _convert_score_for_redis(resp.b, resp.game_score_type)]
    /\ UNCHANGED <<log, gameIdx, globalIdx, userTable, procs>>

\* LeaderboardService._convert_score_from_redis of both stored keys
ConvertFromRedis ==
    /\ resp.op = "for_redis"
    /\ resp' = [op |-> "from_redis", a |-> resp.a, b |-> resp.b,
                game_score_type |-> resp.game_score_type,
                key_a |-> resp.key_a, key_b |-> resp.key_b,
                back_a |-> _convert_score_from_redis(resp.key_a, resp.game_score_type),
                back_b |-> _convert_score_from_redis(resp.key_b, resp.game_score_type)]
    /\ UNCHANGED <<log, gameIdx, globalIdx, userTable, procs>>

\* Game.get_redis_score of both scores
GetRedisScore ==
    /\ resp.op = "scores"
    /\ resp' = [op |-> "get_redis_score", a |-> resp.a, b |-> resp.b,
                game_score_type |-> resp.game_score_type,
                key_a |-> get_redis_score(resp.game_score_type, resp.a),
                key_b |-> get_redis_score(resp.game_score_type, resp.b)]
    /\ UNCHANGED <<log, gameIdx, globalIdx, userTable, procs>>

ConvNext ==
    \/ ConvertForRedis
    \/ ConvertFromRedis
    \/ GetRedisScore

ConvSpec == ConvInit /\ [][ConvNext]_vars

\* ---------------------------------------------------------------- concurrent runs
\* the most Score rows of the concurrent model
MaxConcLog == 2

\* the empty dict rebuild_leaderboard starts its loop with
EmptyUserScores == [keys |-> <<>>, val |-> <<>>]

\* the worker goes on to the update_user_score call for the next item of
\* user_scores.items(), or has finished
NextItem(game_id, keys, val) ==
    IF keys = <<>>
    THEN Idle
    ELSE [pc |-> "zadd_game", op |-> "rebuild", game_id |-> game_id,
          user_id |-> Head(keys), score |-> val[Head(keys)],
          keys |-> Tail(keys), val |-> val]

\* ScoreSubmissionView.post up to super().save() of Score.save while the
\* Score table holds fewer than most rows: the request is valid and the
\* Score row is inserted
SubmitSaveUpTo(most, w, u, g, s) ==
    /\ procs[w].pc = "idle"
    /\ u \in userTable
    /\ is_valid(g, s)
    /\ Len(log) < most
    /\ log' = Append(log, [user |-> u, game |-> g, score |-> s])
    /\ procs' = [procs EXCEPT ![w] =
                    [pc |-> "zadd_game", op |-> "submit", game_id |-> g,
                     user_id |-> u, score |-> s]]
    /\ UNCHANGED <<gameIdx, globalIdx, resp, userTable>>

\* Score.save that skips super().save(): no row is inserted
SubmitSave_unsaved(w, u, g, s) ==
    /\ procs[w].pc = "idle"
    /\ u \in userTable
    /\ is_valid(g, s)
    /\ Len(log) < MaxConcLog
    /\ log' = log
    /\ procs' = [procs EXCEPT ![w] =
                    [pc |-> "zadd_game", op |-> "submit", game_id |-> g,
                     user_id |-> u, score |-> s]]
    /\ UNCHANGED <<gameIdx, globalIdx, resp, userTable>>

\* ScoreSubmissionView.post up to super().save() of Score.save: the request
\* is valid and the Score row is inserted
SubmitSave(w, u, g, s) == SubmitSaveUpTo(MaxConcLog, w, u, g, s)

\* update_user_score whose first command is ZADD NX: a member the sorted
\* set already holds keeps its score
ZaddGame_if_absent(w) ==
    /\ procs[w].pc = "zadd_game"
    /\ LET p == procs[w]
       IN  gameIdx' = IF p.user_id \in DOMAIN gameIdx[p.game_id]
                      THEN gameIdx
                      ELSE update_user_score(gameIdx, globalIdx, p.game_id,
                                             p.user_id, p.score,
                                             Games[p.game_id].score_type).game
    /\ procs' = [procs EXCEPT ![w].pc = "zadd_global"]
    /\ UNCHANGED <<log, globalIdx, resp, userTable>>

\* update_user_score, first command: ZADD on the game's sorted set
ZaddGame(w) ==
    /\ procs[w].pc = "zadd_game"
    /\ LET p == procs[w]
       IN  gameIdx' = update_user_score(gameIdx, globalIdx, p.game_id, p.user_id,
                                        p.score, Games[p.game_id].score_type).game
    /\ procs' = [procs EXCEPT ![w].pc = "zadd_global"]
    /\ UNCHANGED <<log, globalIdx, resp, userTable>>

\* update_user_score, second command: ZADD on the global sorted set; a
\* submission is then over, a rebuild goes on with its next user
ZaddGlobal(w) ==
    /\ procs[w].pc = "zadd_global"
    /\ LET p == procs[w]
       IN  /\ globalIdx' = update_user_score(gameIdx, globalIdx, p.game_id,
                                             p.user_id, p.score,
                                             Games[p.game_id].score_type).global
           /\ procs' = [procs EXCEPT ![w] =
                           IF p.op = "rebuild"
                           THEN NextItem(p.game_id, p.keys, p.val)
                           ELSE Idle]
    /\ UNCHANGED <<log, gameIdx, resp, userTable>>

\* rebuild_leaderboard up to clear_leaderboard: the game exists and its
\* sorted set is deleted
RebuildClear(w, g) ==
    /\ procs[w].pc = "idle"
    /\ g \in DOMAIN Games
    /\ gameIdx' = clear_leaderboard(gameIdx, g)
    /\ procs' = [procs EXCEPT ![w] = [pc |-> "query", op |-> "rebuild", game_id |-> g]]
    /\ UNCHANGED <<log, globalIdx, resp, userTable>>

\* rebuild_leaderboard: the query for the game's Score rows and the loop
\* that keeps each user's best score
RebuildQuery(w) ==
    /\ procs[w].pc = "query"
    /\ LET g == procs[w].game_id
           user_scores == user_scores_loop(EmptyUserScores, ScoresOfGame(log, g),
                                           Games[g].score_type)
       IN  procs' = [procs EXCEPT ![w] = NextItem(g, user_scores.keys, user_scores.val)]
    /\ UNCHANGED <<log, gameIdx, globalIdx, resp, userTable>>

\* clear_leaderboard called on its own: one DELETE
ClearWhileRunning(g) ==
    /\ gameIdx' = clear_leaderboard(gameIdx, g)
    /\ UNCHANGED <<log, globalIdx, resp, userTable, procs>>

ConcInit == Init

ConcNext ==
    \/ \E w \in Workers, u \in Users, g \in GameIds, s \in RequestScores :
           SubmitSave(w, u, g, s)
    \/ \E w \in Workers : ZaddGame(w)
    \/ \E w \in Workers : ZaddGlobal(w)
    \/ \E w \in Workers, g \in GameIds : RebuildClear(w, g)
    \/ \E w \in Workers : RebuildQuery(w)
    \/ \E g \in GameIds : ClearWhileRunning(g)

ConcSpec == ConcInit /\ [][ConcNext]_vars

\* ---------------------------------------------------------------- read claims
\* the last operation was a rank lookup that found the user
Ranked == resp.op = "get_user_rank" /\ resp.result # None

\* the members the reverse order of z lists from position start to end
Listed(z, start, end) ==
    LET ranked_users == zrevrange(z, start, end)
    IN  {ranked_users[i][1] : i \in DOMAIN ranked_users}

\* C11: for a ranked user at 0-indexed position r, surrounding_players is the
\* window from max(0, r-5) to r+5; when every user listed in it resolves, it
\* holds the user's own row, has at most 11 rows with consecutive ranks,
\* starts at rank max(1, user_rank-5) and ends at rank
\* min(total_players, user_rank+5)
C11_SurroundingWindow ==
    Ranked =>
        LET z == gameIdx[resp.game_id]
            r == zrevrank(z, resp.user_id)[1]
            info == resp.result[1]
            surrounding == info.surrounding_players
            n == Len(surrounding)
        IN  /\ surrounding
                   = get_leaderboard(gameIdx, resp.game_id, Max2(0, r - 5), r + 5)
            /\ Listed(z, Max2(0, r - 5), r + 5) \subseteq userTable =>
                   /\ \E i \in 1..n :
                          /\ surrounding[i].user_id = resp.user_id
                          /\ surrounding[i].rank = info.user_rank
                          /\ surrounding[i].score = info.user_score
                   /\ n <= 11
                   /\ \A i \in 1..(n - 1) :
                          surrounding[i + 1].rank = surrounding[i].rank + 1
                   /\ surrounding[1].rank = Max2(1, info.user_rank - 5)
                   /\ surrounding[n].rank
                          = Min2(info.total_players, info.user_rank + 5)

\* the user at rank 7 of 12 resolvable players: a full window, ranks 2 to 12
C11_Witness ==
    /\ Ranked
    /\ resp.result[1].user_rank = 7
    /\ resp.result[1].total_players = 12
    /\ Len(resp.result[1].surrounding_players) = 11
    /\ resp.result[1].surrounding_players[1].rank = 2
    /\ resp.result[1].surrounding_players[11].rank = 12
    /\ DOMAIN gameIdx[resp.game_id] \subseteq userTable

\* the last operation was get_leaderboard on the whole index of its game
WholeRead ==
    /\ resp.op = "get_leaderboard"
    /\ resp.start = 0
    /\ resp.end = zcard(gameIdx[resp.game_id]) - 1

\* C12: when every ranked user resolves, get_leaderboard(g, 0, cardinality-1)
\* returns exactly cardinality rows: one row per ranked user, no user twice,
\* with ranks 1..cardinality in increasing order
C12_WholeLeaderboard ==
    (WholeRead /\ DOMAIN gameIdx[resp.game_id] \subseteq userTable) =>
        LET z == gameIdx[resp.game_id]
            rows == resp.rows
        IN  /\ Len(rows) = zcard(z)
            /\ {rows[i].user_id : i \in DOMAIN rows} = DOMAIN z
            /\ \A i, j \in DOMAIN rows :
                   rows[i].user_id = rows[j].user_id => i = j
            /\ \A i \in DOMAIN rows : rows[i].rank = i

\* the whole leaderboard of MaxBoard resolvable players was read
C12_Witness ==
    /\ WholeRead
    /\ zcard(gameIdx[resp.game_id]) = MaxBoard
    /\ DOMAIN gameIdx[resp.game_id] \subseteq userTable
    /\ Len(resp.rows) = MaxBoard

\* the index the last window read was taken from
ReadIndex ==
    IF resp.op = "get_global_leaderboard" THEN globalIdx ELSE gameIdx[resp.game_id]

\* the last operation was a window read of the service
WindowRead == resp.op \in {"get_leaderboard", "get_global_leaderboard"}

\* C13: for any integers start and end, get_leaderboard and
\* get_global_leaderboard called with start > end or with
\* start >= cardinality return an empty list
C13_EmptyWindow ==
    (WindowRead /\ (resp.start > resp.end \/ resp.start >= zcard(ReadIndex)))
        => resp.rows = <<>>

\* a requested bound as the clamping treats it: a negative bound is 0, an
\* end beyond the last rank is the last rank
ClampStart(start) == Max2(0, start)
ClampEnd(end, cardinality) == Max2(0, Min2(end, cardinality - 1))

\* the last operation read a window of a game's index, through the service
\* or through LeaderboardView
GameWindowRead ==
    \/ resp.op = "get_leaderboard"
    \/ resp.op = "leaderboard_view" /\ resp.status = 200

\* the rows of the last read of a game's index
ReadRows == IF resp.op = "leaderboard_view" THEN resp.leaderboard ELSE resp.rows

\* C14: both bounds of a window request are clamped to [0, cardinality-1]
\* before lookup, so the rows are those of the clamped window, a negative
\* bound never selects rows counted from the end of the index and every
\* returned row has rank >= 1
C14_BoundsClamped ==
    GameWindowRead =>
        LET cardinality == zcard(gameIdx[resp.game_id])
        IN  /\ \A i \in DOMAIN ReadRows : ReadRows[i].rank >= 1
            /\ ReadRows = get_leaderboard(gameIdx, resp.game_id,
                                          ClampStart(resp.start),
                                          ClampEnd(resp.end, cardinality))

\* the 0-indexed position of a member in the order the index lists it
PositionOf(z, member) == zrevrank(z, member)[1]

\* the last get_leaderboard asked for a range that holds a user without a
\* User row
DroppedRead ==
    /\ resp.op = "get_leaderboard"
    /\ \E u \in Listed(gameIdx[resp.game_id], resp.start, resp.end) :
           u \notin userTable

\* C15: when a user id inside the requested range has no resolvable
\* identity, get_leaderboard omits only that row: the rows are those of the
\* resolvable users of the range, each with rank = its 0-indexed position in
\* the index + 1, in the order of the index
C15_DroppedRowKeepsRanks ==
    DroppedRead =>
        LET z == gameIdx[resp.game_id]
            rows == resp.rows
        IN  /\ {rows[i].user_id : i \in DOMAIN rows}
                   = Listed(z, resp.start, resp.end) \cap userTable
            /\ \A i \in DOMAIN rows :
                   rows[i].rank = PositionOf(z, rows[i].user_id) + 1
            /\ \A i, j \in DOMAIN rows : i < j => rows[i].rank < rows[j].rank

\* ---------------------------------------------------------------- conversion claims
\* C16: for every policy and every non-negative score x, converting x to the
\* stored key and back returns x
C16_RoundTrip ==
    resp.op = "from_redis" =>
        /\ resp.back_a = resp.a
        /\ resp.back_b = resp.b
        /\ _convert_score_from_redis(
               _convert_score_for_redis(resp.a, resp.game_score_type),
               resp.game_score_type) = resp.a

\* the largest score of a highest-wins game went to its negated key and back
C16_Witness ==
    /\ resp.op = "from_redis"
    /\ resp.game_score_type = "highest"
    /\ resp.a = MaxRaw
    /\ resp.key_a = 0 - MaxRaw
    /\ resp.back_a = MaxRaw

\* a is strictly better than b under the policy
Better(a, b, game_score_type) ==
    IF game_score_type = "highest" THEN a > b ELSE a < b

\* C17: the normalizer maps a raw score to -raw for highest and to raw for
\* lowest and time, so for every policy and any two non-negative raw scores
\* a and b, key(a) < key(b) exactly when a is strictly better than b
C17_KeyOrderIsBetterOrder ==
    resp.op \in {"for_redis", "get_redis_score"} =>
        /\ resp.key_a = IF resp.game_score_type = "highest"
                        THEN 0 - resp.a ELSE resp.a
        /\ resp.key_b = IF resp.game_score_type = "highest"
                        THEN 0 - resp.b ELSE resp.b
        /\ resp.key_a < resp.key_b
               <=> Better(resp.a, resp.b, resp.game_score_type)

\* a higher score of a highest-wins game got the smaller key, and a lower
\* time of a time game got the smaller key
C17_Witness ==
    /\ resp.op = "for_redis"
    /\ \/ /\ resp.game_score_type = "highest"
          /\ resp.a > resp.b
          /\ resp.key_a < resp.key_b
       \/ /\ resp.game_score_type = "time"
          /\ resp.a < resp.b
          /\ resp.key_a < resp.key_b

\* ---------------------------------------------------------------- index and log claims
\* a worker is in the middle of an operation of this kind
Running(op) == \E w \in Workers : procs[w].pc # "idle" /\ procs[w].op = op

\* C18: in every state reachable through score submissions,
\* rebuild_leaderboard and clear_leaderboard, intermediate states of
\* concurrent runs included, every member of a game's index has at least one
\* log record for that game and every member of the global index has at
\* least one log record in some game
C18_MembersHaveRecords ==
    /\ \A g \in GameIds : \A u \in DOMAIN gameIdx[g] : RecordsOf(log, u, g) # {}
    /\ \A u \in DOMAIN globalIdx : \E g \in GameIds : RecordsOf(log, u, g) # {}

\* a rebuild and a submission are both under way while both indexes hold
\* members
C18_Witness ==
    /\ Running("rebuild")
    /\ Running("submit")
    /\ \E g \in GameIds : gameIdx[g] # EmptyZSet
    /\ globalIdx # EmptyZSet

\* every user with a Score row of the game has an entry in the game's index
EveryPairRanked(lg, gi, g) ==
    \A u \in Users : RecordsOf(lg, u, g) # {} => u \in DOMAIN gi[g]

\* C19 as stated: in every state reachable through submitScore,
\* rebuildLeaderboard and clearLeaderboard, for every user/game pair with at
\* least one log record the game's index holds exactly one entry for that
\* user
C19_EntryForEveryPair == \A g \in DOMAIN Games : EveryPairRanked(log, gameIdx, g)

\* C19 amended: a user/game pair with a log record is without an entry only
\* through clearLeaderboard: an accepted submission and a rebuild keep
\* "every pair of the game with a log record has its one entry" for every
\* game, and after rebuildLeaderboard(g) it holds for g whatever was cleared
\* before
C19_OnlyClearUnranks ==
    [][\A g \in DOMAIN Games :
           /\ (EveryPairRanked(log, gameIdx, g) /\ resp'.op # "clear")
                  => EveryPairRanked(log', gameIdx', g)
           /\ (resp'.op = "rebuild" /\ resp'.game_id = g)
                  => EveryPairRanked(log', gameIdx', g)]_vars

\* a rebuild has just given every user an entry in a game all of them
\* submitted to, and another game with a log record has lost its entries
C19_Witness ==
    /\ resp.op = "rebuild"
    /\ resp.game_id \in DOMAIN Games
    /\ \A u \in Users : RecordsOf(log, u, resp.game_id) # {}
    /\ DOMAIN gameIdx[resp.game_id] = Users
    /\ \E g \in DOMAIN Games : ~EveryPairRanked(log, gameIdx, g)

\* C20: in every reachable state, under any interleaving of submissions and
\* rebuilds, each entry of a game's index, denormalized with the game's
\* policy, equals the raw score of some log record of that same user for
\* that same game
C20_EntryIsSubmittedScore ==
    \A g \in DOMAIN Games : \A u \in DOMAIN gameIdx[g] :
        _convert_score_from_redis(gameIdx[g][u], Games[g].score_type)
            \in ScoresOf(log, u, g)

\* all workers are done and a user who submitted two different scores to a
\* game has the older one in its index: a rebuild that read the log before
\* the newer submission wrote after it
C20_Witness ==
    /\ \A w \in Workers : procs[w].pc = "idle"
    /\ \E g \in DOMAIN Games : \E u \in DOMAIN gameIdx[g] :
           /\ Cardinality(ScoresOf(log, u, g)) = 2
           /\ log[Len(log)].user = u
           /\ log[Len(log)].game = g
           /\ _convert_score_from_redis(gameIdx[g][u], Games[g].score_type)
                  # log[Len(log)].score

\* ---------------------------------------------------------------- failures
\* the answer to a submission whose handler raised: the exception leaves
\* ScoreSubmissionView.post, which catches nothing
ServerError(p, failed) ==
    [op |-> "submit", request |-> [game_id |-> p.game_id, score |-> p.score],
     user_id |-> p.user_id, status |-> 500, failed |-> failed]

\* Score.save whose failed super().save() is followed by the index update
SubmitSaveFails_goes_on(w, u, g, s) ==
    /\ procs[w].pc = "idle"
    /\ u \in userTable
    /\ is_valid(g, s)
    /\ resp' = ServerError([game_id |-> g, user_id |-> u, score |-> s], "save")
    /\ procs' = [procs EXCEPT ![w] =
                    [pc |-> "zadd_game", op |-> "submit", game_id |-> g,
                     user_id |-> u, score |-> s]]
    /\ UNCHANGED <<log, gameIdx, globalIdx, userTable>>

\* Score.save: super().save() raises, no row is inserted and
\* update_redis_leaderboard is not reached
SubmitSaveFails(w, u, g, s) ==
    /\ procs[w].pc = "idle"
    /\ u \in userTable
    /\ is_valid(g, s)
    /\ resp' = ServerError([game_id |-> g, user_id |-> u, score |-> s], "save")
    /\ UNCHANGED <<log, gameIdx, globalIdx, userTable, procs>>

\* update_user_score: the ZADD on the game's sorted set raises
ZaddGameFails(w) ==
    /\ procs[w].pc = "zadd_game"
    /\ procs[w].op = "submit"
    /\ resp' = ServerError(procs[w], "zadd_game")
    /\ procs' = [procs EXCEPT ![w] = Idle]
    /\ UNCHANGED <<log, gameIdx, globalIdx, userTable>>

\* update_user_score, second command, of a submission whose handler goes on
\* to the rank lookup
PostZaddGlobal(w) ==
    /\ procs[w].pc = "zadd_global"
    /\ procs[w].op = "submit"
    /\ LET p == procs[w]
       IN  globalIdx' = update_user_score(gameIdx, globalIdx, p.game_id, p.user_id,
                                          p.score, Games[p.game_id].score_type).global
    /\ procs' = [procs EXCEPT ![w].pc = "get_user_rank"]
    /\ UNCHANGED <<log, gameIdx, resp, userTable>>

\* update_user_score: the ZADD on the global sorted set raises
ZaddGlobalFails(w) ==
    /\ procs[w].pc = "zadd_global"
    /\ procs[w].op = "submit"
    /\ resp' = ServerError(procs[w], "zadd_global")
    /\ procs' = [procs EXCEPT ![w] = Idle]
    /\ UNCHANGED <<log, gameIdx, globalIdx, userTable>>

\* ScoreSubmissionView.post after Score.objects.create: the rank lookup, the
\* personal best and the 201 answer
PostRespond(w) ==
    /\ procs[w].pc = "get_user_rank"
    /\ LET p == procs[w]
           rank_info == get_user_rank(gameIdx, p.game_id, p.user_id)
           previous_best == get_user_best_score(log, p.user_id, p.game_id)
       IN  resp' = [op |-> "submit",
                    request |-> [game_id |-> p.game_id, score |-> p.score],
                    user_id |-> p.user_id,
                    status |-> 201, score |-> p.score,
                    is_personal_best |->
                        is_personal_best(previous_best, p.score,
                                         Games[p.game_id].score_type),
                    rank |-> IF rank_info = None THEN None
                             ELSE Some(rank_info[1].user_rank),
                    total_players |-> IF rank_info = None THEN None
                                      ELSE Some(rank_info[1].total_players)]
    /\ procs' = [procs EXCEPT ![w] = Idle]
    /\ UNCHANGED <<log, gameIdx, globalIdx, userTable>>

\* ScoreSubmissionView.post: a Redis command of get_user_rank raises
GetUserRankFails(w) ==
    /\ procs[w].pc = "get_user_rank"
    /\ resp' = ServerError(procs[w], "get_user_rank")
    /\ procs' = [procs EXCEPT ![w] = Idle]
    /\ UNCHANGED <<log, gameIdx, globalIdx, userTable>>

FailInit == Init

FailNext ==
    \/ \E w \in Workers, u \in Users, g \in GameIds, s \in RequestScores :
           SubmitSave(w, u, g, s)
    \/ \E w \in Workers, u \in Users, g \in GameIds, s \in RequestScores :
           SubmitSaveFails(w, u, g, s)
    \/ \E w \in Workers : ZaddGame(w)
    \/ \E w \in Workers : ZaddGameFails(w)
    \/ \E w \in Workers : PostZaddGlobal(w)
    \/ \E w \in Workers : ZaddGlobalFails(w)
    \/ \E w \in Workers : PostRespond(w)
    \/ \E w \in Workers : GetUserRankFails(w)

FailSpec == FailInit /\ [][FailNext]_vars

\* ---------------------------------------------------------------- failure claims
\* the Score row a worker inserted for the submission it is handling
RecordOf(p) == [user |-> p.user_id, game |-> p.game_id, score |-> p.score]

\* the worker is at one of the two index writes of a submission
AtIndexWrite(w) ==
    procs[w].pc \in {"zadd_game", "zadd_global"} /\ procs[w].op = "submit"

\* the last answer is the failure of a submission at this point of the handler
FailedAt(points) ==
    /\ resp.op = "submit"
    /\ "failed" \in DOMAIN resp
    /\ resp.failed \in points

\* C21: if appending the score record to the log fails, the submission fails
\* and neither the per-game index nor the global index is written; in every
\* run the index write of a submission happens only after its log record
\* has been persisted
C21_NoIndexWriteWithoutRecord ==
    [][/\ (resp' # resp /\ resp'.op = "submit" /\ resp'.status = 500
              /\ resp'.failed = "save")
           => /\ log' = log
              /\ gameIdx' = gameIdx
              /\ globalIdx' = globalIdx
              /\ procs' = procs
       /\ \A w \in Workers :
              (AtIndexWrite(w) /\ procs'[w] # procs[w])
                  => \E i \in DOMAIN log : log[i] = RecordOf(procs[w])
       /\ (gameIdx' # gameIdx \/ globalIdx' # globalIdx)
              => \E w \in Workers : AtIndexWrite(w) /\ procs'[w] # procs[w]]_vars

\* a submission failed at the insert: the answer is a failure, the user has
\* no Score row and no entry in either index, and no worker is writing
C21_Witness ==
    /\ FailedAt({"save"})
    /\ resp.status = 500
    /\ RecordsOf(log, resp.user_id, resp.request.game_id) = {}
    /\ resp.user_id \notin DOMAIN gameIdx[resp.request.game_id]
    /\ resp.user_id \notin DOMAIN globalIdx
    /\ \A w \in Workers : procs[w].pc = "idle"
    /\ log # <<>>

\* C22: once the log append of a submission has succeeded, a failure of the
\* backing index store during the index update or during the
\* post-submission rank lookup does not fail the submission: the call still
\* reports success, with the rank omitted, and the log record remains
C22_IndexFailureStillSucceeds ==
    FailedAt({"zadd_game", "zadd_global", "get_user_rank"}) =>
        /\ resp.status = 201
        /\ RecordsOf(log, resp.user_id, resp.request.game_id) # {}

\* ---------------------------------------------------------------- clear claim
\* C23: clear_leaderboard(gameId) removes every entry of that game's index
\* (its cardinality becomes 0 and get_user_rank returns not-found for every
\* user of it) and leaves the indexes of all other games, the global index
\* and the score log unchanged
C23_ClearFrame ==
    [][resp'.op = "clear" =>
           LET g == resp'.game_id
           IN  /\ zcard(gameIdx'[g]) = 0
               /\ \A u \in Users : get_user_rank(gameIdx', g, u) = None
               /\ \A h \in GameIds \ {g} : gameIdx'[h] = gameIdx[h]
               /\ globalIdx' = globalIdx
               /\ log' = log]_vars

\* a game with Score rows has just been cleared while another game and the
\* global index still hold entries
C23_Witness ==
    /\ resp.op = "clear"
    /\ gameIdx[resp.game_id] = EmptyZSet
    /\ \E u \in Users : RecordsOf(log, u, resp.game_id) # {}
    /\ \E h \in GameIds \ {resp.game_id} : gameIdx[h] # EmptyZSet
    /\ globalIdx # EmptyZSet

\* ---------------------------------------------------------------- global index claim
\* C25: the global index ranks a higher stored value as better with no policy
\* normalization: get_global_leaderboard returns rows in non-increasing
\* total_score order, each showing the stored value, with ranks start+1,
\* start+2, ... counted over the listed entries; get_user_global_rank is
\* None exactly when the user has no global entry, else a 1-indexed rank
\* with 1 <= user_rank <= total_players where the rank-1 user holds the
\* maximum stored value
C25_GlobalIndexOrder ==
    /\ resp.op = "get_global_leaderboard" =>
           LET rows == resp.rows
               listing == zrevrange(globalIdx, resp.start, resp.end)
           IN  /\ \A i, j \in DOMAIN rows :
                      i < j => rows[i].total_score >= rows[j].total_score
               /\ \A i \in DOMAIN rows :
                      /\ rows[i].total_score = globalIdx[rows[i].user_id]
                      /\ \E k \in DOMAIN listing :
                             /\ listing[k][1] = rows[i].user_id
                             /\ rows[i].rank = resp.start + k
               /\ Listed(globalIdx, resp.start, resp.end) \subseteq userTable =>
                      /\ Len(rows) = Len(listing)
                      /\ \A i \in DOMAIN rows : rows[i].rank = resp.start + i
    /\ resp.op = "get_user_global_rank" =>
           /\ resp.result = None <=> resp.user_id \notin DOMAIN globalIdx
           /\ resp.result # None =>
                  LET info == resp.result[1]
                  IN  /\ 1 <= info.user_rank
                      /\ info.user_rank <= info.total_players
                      /\ info.total_players = zcard(globalIdx)
                      /\ info.total_score = globalIdx[resp.user_id]
                      /\ info.user_rank = 1 =>
                             \A v \in DOMAIN globalIdx :
                                 globalIdx[v] <= info.total_score

\* the global rank of the user with the highest stored value among MaxBoard
\* users with different values was looked up: rank 1
C25_Witness ==
    /\ resp.op = "get_user_global_rank"
    /\ resp.result # None
    /\ resp.result[1].user_rank = 1
    /\ resp.result[1].total_players = MaxBoard
    /\ \A v \in DOMAIN globalIdx \ {resp.user_id} :
           globalIdx[v] < globalIdx[resp.user_id]

\* ---------------------------------------------------------------- page claims
\* the last operation was a page of a leaderboard answered by a view
PageRead ==
    /\ resp.op \in {"leaderboard_view", "global_leaderboard_view"}
    /\ resp.status = 200

\* the index the last page was read from
PageIndex ==
    IF resp.op = "global_leaderboard_view" THEN globalIdx ELSE gameIdx[resp.game_id]

\* C29: for any integer page and page_size query parameters, LeaderboardView
\* and GlobalLeaderboardView return at most min(page_size, 100) rows, hence
\* never more than 100 rows
C29_AtMostPageSizeRows ==
    PageRead =>
        /\ Len(resp.leaderboard) <= Max2(0, resp.page_size)
        /\ Len(resp.leaderboard) <= MaxPageSize

\* C30: for page >= 1 and page_size >= 1, LeaderboardView and
\* GlobalLeaderboardView report has_next = true exactly when the index holds
\* at least one entry ranked after the last rank of the requested page
C30_HasNext ==
    (PageRead /\ resp.page >= 1 /\ resp.page_size >= 1) =>
        (resp.has_next <=> zcard(PageIndex) > resp.page * resp.page_size)

\* ---------------------------------------------------------------- runs without clear
\* workers that only submit
SubmitNext ==
    \/ \E w \in Workers, u \in Users, g \in GameIds, s \in RequestScores :
           SubmitSave(w, u, g, s)
    \/ \E w \in Workers : ZaddGame(w)
    \/ \E w \in Workers : ZaddGlobal(w)

SubmitSpec == Init /\ [][SubmitNext]_vars

\* workers that submit and rebuild; clear_leaderboard runs only inside a
\* rebuild
NoClearNext ==
    \/ \E w \in Workers, u \in Users, g \in GameIds, s \in RequestScores :
           SubmitSave(w, u, g, s)
    \/ \E w \in Workers : ZaddGame(w)
    \/ \E w \in Workers : ZaddGlobal(w)
    \/ \E w \in Workers, g \in GameIds : RebuildClear(w, g)
    \/ \E w \in Workers : RebuildQuery(w)

NoClearSpec == Init /\ [][NoClearNext]_vars

\* one client that submits request after request, and one process that
\* runs rebuild_leaderboard
Submitter == CHOOSE w \in Workers : \A v \in Workers : w <= v
Rebuilder == CHOOSE w \in Workers : \A v \in Workers : v <= w

\* the most Score rows of the runs of the submitter and the rebuilder
MaxHealLog == 3

HealNext ==
    \/ \E u \in Users, g \in GameIds, s \in RequestScores :
           SubmitSaveUpTo(MaxHealLog, Submitter, u, g, s)
    \/ ZaddGame(Submitter)
    \/ ZaddGlobal(Submitter)
    \/ \E g \in GameIds : RebuildClear(Rebuilder, g)
    \/ RebuildQuery(Rebuilder)
    \/ ZaddGame(Rebuilder)
    \/ ZaddGlobal(Rebuilder)

HealSpec == Init /\ [][HealNext]_vars

\* ---------------------------------------------------------------- get_user_rank, command by command
\* one process that runs get_user_rank, and one that writes meanwhile
Reader == CHOOSE w \in Workers : \A v \in Workers : w <= v
Writer == CHOOSE w \in Workers : \A v \in Workers : v <= w

\* what a run of get_user_rank came to: it returned result (None or a
\* dict), or it raised error
RankReturn(p, result) ==
    [op |-> "get_user_rank_run", game_id |-> p.game_id, user_id |-> p.user_id,
     outcome |-> "returned", result |-> result]

RankRaise(p, error) ==
    [op |-> "get_user_rank_run", game_id |-> p.game_id, user_id |-> p.user_id,
     outcome |-> error, result |-> None]

\* get_user_rank up to ZREVRANK: the game exists; no rank, and None is
\* returned.  A behaviour follows one call of get_user_rank, made at any
\* moment of what the writer does.
ReadRank(g, u) ==
    /\ procs[Reader].pc = "idle"
    /\ resp.op = "none"
    /\ g \in DOMAIN Games
    /\ LET rank == zrevrank(gameIdx[g], u)
           p == [game_id |-> g, user_id |-> u]
       IN  IF rank = None
           THEN /\ resp' = RankReturn(p, None)
                /\ procs' = procs
           ELSE /\ resp' = resp
                /\ procs' = [procs EXCEPT ![Reader] =
                                [pc |-> "zscore", op |-> "get_user_rank",
                                 game_id |-> g, user_id |-> u, rank |-> rank[1]]]
    /\ UNCHANGED <<log, gameIdx, globalIdx, userTable>>

\* get_user_rank: ZSCORE and _convert_score_from_redis of its answer.
\* ZSCORE of a member that is gone answers None: -None raises TypeError
\* for a highest game, and None is passed on as the score otherwise.  The
\* score is kept as an optional value.
ReadScore ==
    /\ procs[Reader].pc = "zscore"
    /\ LET p == procs[Reader]
           redis_score == zscore(gameIdx[p.game_id], p.user_id)
           game_score_type == Games[p.game_id].score_type
       IN  IF redis_score = None /\ game_score_type = "highest"
           THEN /\ resp' = RankRaise(p, "TypeError")
                /\ procs' = [procs EXCEPT ![Reader] = Idle]
           ELSE /\ resp' = resp
                /\ procs' = [procs EXCEPT ![Reader] =
                       [pc |-> "get_leaderboard", op |-> "get_user_rank",
                        game_id |-> p.game_id, user_id |-> p.user_id,
                        rank |-> p.rank,
                        actual_score |->
                            IF redis_score = None
                            THEN None
                            ELSE Some(_convert_score_from_redis(
                                          redis_score[1], game_score_type))]]
    /\ UNCHANGED <<log, gameIdx, globalIdx, userTable>>

\* get_user_rank: get_leaderboard(game_id, max(0, rank - 5), rank + 5)
ReadWindow ==
    /\ procs[Reader].pc = "get_leaderboard"
    /\ LET p == procs[Reader]
       IN  procs' = [procs EXCEPT ![Reader] =
                        [pc |-> "zcard", op |-> "get_user_rank",
                         game_id |-> p.game_id, user_id |-> p.user_id,
                         rank |-> p.rank, actual_score |-> p.actual_score,
                         surrounding_players |->
                             get_leaderboard(gameIdx, p.game_id,
                                             Max2(0, p.rank - 5), p.rank + 5)]]
    /\ UNCHANGED <<log, gameIdx, globalIdx, resp, userTable>>

\* get_user_rank: ZCARD, and the dict is returned
ReadCard ==
    /\ procs[Reader].pc = "zcard"
    /\ LET p == procs[Reader]
       IN  resp' = RankReturn(p, Some([user_rank |-> p.rank + 1,
                                       user_score |-> p.actual_score,
                                       surrounding_players |-> p.surrounding_players,
                                       total_players |-> zcard(gameIdx[p.game_id])]))
    /\ procs' = [procs EXCEPT ![Reader] = Idle]
    /\ UNCHANGED <<log, gameIdx, globalIdx, userTable>>

ReadNext ==
    \/ \E g \in GameIds, u \in Users : ReadRank(g, u)
    \/ ReadScore
    \/ ReadWindow
    \/ ReadCard
    \/ \E u \in Users, g \in GameIds, s \in RequestScores :
           SubmitSave(Writer, u, g, s)
    \/ ZaddGame(Writer)
    \/ ZaddGlobal(Writer)
    \/ \E g \in GameIds : RebuildClear(Writer, g)
    \/ RebuildQuery(Writer)
    \/ \E g \in GameIds : ClearWhileRunning(g)

ReadSpec == Init /\ [][ReadNext]_vars

\* ---------------------------------------------------------------- interleaving claims
\* every worker has finished what it was doing
AllIdle == \A w \in Workers : procs[w].pc = "idle"

\* the score of the newest Score row of a user for a game
NewestScore(lg, user_id, game_id) ==
    LET recs == RecordsOf(lg, user_id, game_id)
    IN  lg[CHOOSE i \in recs : \A j \in recs : j <= i].score

\* C26: after any interleaving of concurrent submissions by the same user to
\* the same game (no rebuild, no clear) has completed, the user's entry in
\* the game's index equals the score of the user's most recently appended
\* log record for that game
C26_NewestSubmissionWins ==
    AllIdle =>
        \A g \in DOMAIN Games, u \in Users :
            RecordsOf(log, u, g) # {} =>
                /\ u \in DOMAIN gameIdx[g]
                /\ _convert_score_from_redis(gameIdx[g][u], Games[g].score_type)
                       = NewestScore(log, u, g)

\* C27: after any interleaving of score submissions and rebuild_leaderboard
\* runs on a game (with no separate clear_leaderboard call) has completed,
\* every user with at least one log record for that game has an entry in
\* the game's index
C27_NoUserLostByRebuild ==
    AllIdle => \A g \in DOMAIN Games : EveryPairRanked(log, gameIdx, g)

\* all runs are over, a user has two Score rows of a game, the second the
\* better one, and the game's index holds the first: a run that read or
\* saved before the second row was there wrote the sorted set last, and the
\* user is ranked all the same
C27_Witness ==
    /\ AllIdle
    /\ \E g \in DOMAIN Games, u \in Users :
           /\ Cardinality(RecordsOf(log, u, g)) = 2
           /\ u \in DOMAIN gameIdx[g]
           /\ gameIdx[g][u] < _convert_score_for_redis(NewestScore(log, u, g),
                                                       Games[g].score_type)
           /\ EveryPairRanked(log, gameIdx, g)

\* the entry of the game's index for the submission a worker is running
\* is that submission's normalized score
HoldsOwnScore(gi, p) ==
    /\ p.user_id \in DOMAIN gi[p.game_id]
    /\ gi[p.game_id][p.user_id]
           = _convert_score_for_redis(p.score, Games[p.game_id].score_type)

\* C24: whatever an earlier race of a submission of user u to game g with
\* rebuild_leaderboard(g) left in the index, a later submission of u to g
\* that writes the index while no rebuild is running leaves u's entry in
\* g's index equal to that submission's normalized score: its ZADD on the
\* game's sorted set sets the entry and its ZADD on the global sorted set
\* keeps it
C24_SelfHealing ==
    [][LET p == procs[Submitter]
       IN  (procs[Rebuilder].pc = "idle" /\ procs'[Rebuilder].pc = "idle") =>
               /\ (p.pc = "zadd_game" /\ procs'[Submitter].pc = "zadd_global")
                      => HoldsOwnScore(gameIdx', p)
               /\ (p.pc = "zadd_global" /\ procs'[Submitter].pc = "idle"
                      /\ HoldsOwnScore(gameIdx, p))
                      => HoldsOwnScore(gameIdx', p)]_vars

\* three Score rows 0, 1, 1 of one user for a highest-wins game; the global
\* sorted set still holds 0, which only a rebuild that read the log before
\* the second row was saved and wrote after that submission can have put
\* there; the rebuild is over and the third submission has written the
\* game's sorted set
C24_Witness ==
    /\ Len(log) = MaxHealLog
    /\ procs[Rebuilder].pc = "idle"
    /\ procs[Submitter].pc = "zadd_global"
    /\ \E u \in Users, g \in DOMAIN Games :
           /\ Games[g].score_type = "highest"
           /\ \A i \in 1..Len(log) : log[i].user = u /\ log[i].game = g
           /\ log[1].score = 0 /\ log[2].score = 1 /\ log[3].score = 1
           /\ globalIdx = (u :> 0)
           /\ HoldsOwnScore(gameIdx, procs[Submitter])

\* a run of get_user_rank has come to its end
RankRunOver == resp.op = "get_user_rank_run"

\* the dict get_user_rank returned is one a single look at the index gives
ConsistentRank(result, game_id, user_id) ==
    /\ result.user_score # None
    /\ result.user_score[1] \in ScoresOf(log, user_id, game_id)
    /\ 1 <= result.user_rank
    /\ result.user_rank <= result.total_players
    /\ \E i \in 1..Len(result.surrounding_players) :
           result.surrounding_players[i].user_id = user_id

\* C28: get_user_rank running concurrently with clear_leaderboard,
\* rebuild_leaderboard or other submissions to the same game either returns
\* None or returns a dict in which user_score is a score stored for the
\* user, 1 <= user_rank <= total_players and surrounding_players holds the
\* user's own row; it never raises because the entry vanished between its
\* reads
C28_ConsistentSnapshot ==
    RankRunOver =>
        /\ resp.outcome = "returned"
        /\ resp.result # None =>
               ConsistentRank(resp.result[1], resp.game_id, resp.user_id)
====
